---- MODULE Spec2Model ----
(***************************************************************************)
(* Model of the MCP tool bridge of the chat client: path confinement       *)
(* (forceUnderBase), the per-tool argument sanitizers, the catalog         *)
(* builder, fulfillToolUses and the askAnthropicWithTools loop.            *)
(*                                                                         *)
(* Strings that are paths are modelled as [abs, segs]: whether the string  *)
(* starts with the separator, and the segments between separators (POSIX). *)
(* The empty string is [abs |-> FALSE, segs |-> <<>>], the root is         *)
(* [abs |-> TRUE, segs |-> <<>>].                                          *)
(***************************************************************************)
EXTENDS Naturals, Sequences, FiniteSets, TLC

VARIABLES
  fu,           \* one application of forceUnderBase: [base, input, out, done]
  http,         \* one callTool of a remote connection: [def, name, resp, out, done]
  sessionState, \* main.mjs sessionState: [currentRepoPath]
  routeMap,     \* tool name -> [client, sanitizer]
  pc,           \* where control is: "idle", "fulfill", ...
  content,      \* contentBlocks of the running fulfillToolUses call
  idx,          \* index of the block its for-loop is at
  results,      \* its results array
  calls,        \* callTool invocations it has made: [id, client, name, args, reply]
  thrown,       \* an exception that left fulfillToolUses (NoErr: none)
  explicitRepo, \* observation: the repo_path returned by the latest
                \* version-control call that was given one (Null: none)
  messages,     \* main.mjs messages: the conversation history
  toolsMode,    \* main.mjs toolsMode
  toolsForAnthropic, \* main.mjs toolsForAnthropic: the catalog sent to the model
  clients,      \* main.mjs fsClient .. trainerClient: connected or null
  listings,     \* what listTools answered, provider by provider, at the build
  ask,          \* the running askAnthropicWithTools call and what it has done
  lastText      \* the text the last turn printed

replVars == <<messages, toolsMode, toolsForAnthropic, clients, listings, ask, lastText>>

vars == <<fu, http, sessionState, routeMap, pc, content, idx, results, calls, thrown,
          explicitRepo, messages, toolsMode, toolsForAnthropic, clients, listings,
          ask, lastText>>

----------------------------------------------------------------------------
(* Bounds *)

\* longest input path, in segments, given to forceUnderBase on its own
MaxSegs == 3

\* most blocks in a response of several blocks
MaxBlocks == 2

\* most model queries in one askAnthropicWithTools call of the model
MaxQueries == 2

\* a prompt is typed only while the history is shorter than this
MaxMessages == 2

----------------------------------------------------------------------------
(* node:path, POSIX flavour *)

PathStr(abs, segs) == [abs |-> abs, segs |-> segs]

EmptyStr == PathStr(FALSE, <<>>)

Last(s) == s[Len(s)]

Front(s) == SubSeq(s, 1, Len(s) - 1)

\* normalizeString: "." is dropped, ".." removes the segment before it; above
\* the root of an absolute path ".." is dropped, in a relative path it is kept.
RECURSIVE NormSegs(_, _, _)
NormSegs(abs, acc, rest) ==
  IF rest = <<>> THEN acc
  ELSE LET h == Head(rest)
           t == Tail(rest)
       IN  IF h = "." THEN NormSegs(abs, acc, t)
           ELSE IF h = ".."
                THEN IF acc # <<>> /\ Last(acc) # ".."
                     THEN NormSegs(abs, Front(acc), t)
                     ELSE IF abs THEN NormSegs(abs, acc, t)
                          ELSE NormSegs(abs, Append(acc, ".."), t)
                ELSE NormSegs(abs, Append(acc, h), t)

\* the working directory of the process
Cwd == PathStr(TRUE, <<"w">>)

isAbsolute(p) == p.abs

\* path.join(a, b): the non-empty arguments joined by the separator, normalized
pathJoin(a, b) ==
  IF a = EmptyStr THEN PathStr(b.abs, NormSegs(b.abs, <<>>, b.segs))
  ELSE PathStr(a.abs, NormSegs(a.abs, <<>>, a.segs \o b.segs))

\* path.resolve(from, to): the rightmost absolute argument wins; what is to its
\* right is appended; the working directory completes a relative result.
pathResolve2(from, to) ==
  IF to.abs THEN PathStr(TRUE, NormSegs(TRUE, <<>>, to.segs))
  ELSE IF from.abs THEN PathStr(TRUE, NormSegs(TRUE, <<>>, from.segs \o to.segs))
  ELSE PathStr(TRUE, NormSegs(TRUE, <<>>, Cwd.segs \o from.segs \o to.segs))

pathResolve(p) == pathResolve2(EmptyStr, p)

\* path.basename(p): the last segment as written ("" for the root and for "")
basename(p) ==
  IF p.segs = <<>> THEN EmptyStr ELSE PathStr(FALSE, <<Last(p.segs)>>)

\* p.startsWith(base + path.sep), both absolute and normalized
startsWithSep(p, base) ==
  /\ Len(p.segs) > Len(base.segs)
  /\ SubSeq(p.segs, 1, Len(base.segs)) = base.segs

RECURSIVE CommonLen(_, _)
CommonLen(a, b) ==
  IF a = <<>> \/ b = <<>> \/ Head(a) # Head(b) THEN 0
  ELSE 1 + CommonLen(Tail(a), Tail(b))

\* path.relative(from, to): ".." for what is left of from, then what is left of to
pathRelative(from, to) ==
  LET f == pathResolve(from).segs
      t == pathResolve(to).segs
      c == CommonLen(f, t)
  IN  PathStr(FALSE, [i \in 1..(Len(f) - c) |-> ".."] \o SubSeq(t, c + 1, Len(t)))

----------------------------------------------------------------------------
(* toolbridge.mjs: bases and confinement *)

BASE_REPOS == pathResolve2(Cwd, PathStr(FALSE, <<"repos">>))

BASE_DEMO == pathResolve2(Cwd, PathStr(FALSE, <<"demo">>))

forceUnderBase(base, inputPath) ==
  LET p0 == IF isAbsolute(inputPath) THEN inputPath ELSE pathJoin(base, inputPath)
      p  == pathResolve(p0)
  IN  IF ~startsWithSep(p, base) /\ p # base
      THEN pathJoin(base, basename(inputPath))
      ELSE p

----------------------------------------------------------------------------
(* Inputs of forceUnderBase taken on its own *)

Segs == {"..", ".", "w", "repos", "a"}

SeqsUpTo(S, n) == UNION {[1..k -> S] : k \in 0..n}

PathInputs == {PathStr(abs, s) : abs \in BOOLEAN, s \in SeqsUpTo(Segs, MaxSegs)}

Bases == {BASE_REPOS, BASE_DEMO}

NoPath == PathStr(FALSE, <<"?">>)

----------------------------------------------------------------------------
(* JavaScript values of tool arguments *)

Absent == [t |-> "absent"]               \* undefined: the key is missing

Null == [t |-> "null"]

Str(p) == [t |-> "str", p |-> p]         \* a string, read as a path

Num == [t |-> "num"]                     \* a number such as 7: truthy, no string

List(items) == [t |-> "list", items |-> items]

Truthy(v) ==
  CASE v.t = "absent" -> FALSE
    [] v.t = "null"   -> FALSE
    [] v.t = "str"    -> v.p # EmptyStr
    [] OTHER          -> TRUE

ArgKeys == {"repo_path", "path", "source", "destination", "files", "q"}

NoArgs == [k \in ArgKeys |-> Absent]

\* what path.isAbsolute and path.basename throw for an argument that is no string
TypeErrMsg == "The \"path\" argument must be of type string. Received type number (7)"

NoErr == [t |-> "none"]

ErrorObj(m) == [t |-> "Error", message |-> m]

----------------------------------------------------------------------------
(* toolbridge.mjs: the sanitizers.  Each returns [threw, args, state, err]:  *)
(* the arguments it returns, or the exception it throws, and the session     *)
(* state it leaves.                                                          *)

Returned(a, st) == [threw |-> FALSE, args |-> a, state |-> st, err |-> NoErr]

Threw(e, st) == [threw |-> TRUE, args |-> NoArgs, state |-> st, err |-> e]

\* mutant: the entries are dispatched as they came
gitAddFile_kept(repo, f) == f

\* a.files.map(f => path.isAbsolute(f) ? path.relative(a.repo_path, f) || '.' : f)
gitAddFile(repo, f) ==
  IF isAbsolute(f.p)
  THEN LET r == pathRelative(repo.p, f.p)
       IN  IF r = EmptyStr THEN Str(PathStr(FALSE, <<".">>)) ELSE Str(r)
  ELSE f

\* mutant: an explicit repo_path is confined and returned, but not stored
sanitizeGitArgs_noStore(name, args, state) ==
  LET rp == args["repo_path"]
  IN  IF Truthy(rp) /\ rp.t = "str"
      THEN Returned([args EXCEPT !["repo_path"] = Str(forceUnderBase(BASE_REPOS, rp.p))],
                    state)
      ELSE IF Truthy(rp) THEN Threw(ErrorObj(TypeErrMsg), state)
      ELSE IF Truthy(state.currentRepoPath)
           THEN Returned([args EXCEPT !["repo_path"] = state.currentRepoPath], state)
           ELSE LET d == Str(pathJoin(BASE_REPOS, PathStr(FALSE, <<"repo-mcp">>)))
                IN  Returned([args EXCEPT !["repo_path"] = d],
                             [state EXCEPT !.currentRepoPath = d])

sanitizeGitArgs(name, args, state) ==
  LET rp == args["repo_path"]
      \* lines 54-62: the resolved repo_path and the state after it
      st1 == IF Truthy(rp)
             THEN [state EXCEPT !.currentRepoPath = Str(forceUnderBase(BASE_REPOS, rp.p))]
             ELSE IF Truthy(state.currentRepoPath) THEN state
             ELSE [state EXCEPT !.currentRepoPath =
                        Str(pathJoin(BASE_REPOS, PathStr(FALSE, <<"repo-mcp">>)))]
      a1 == [args EXCEPT !["repo_path"] = st1.currentRepoPath]
      fs == args["files"]
  IN  IF Truthy(rp) /\ rp.t # "str"
      THEN Threw(ErrorObj(TypeErrMsg), state)
      ELSE IF name = "git_add" /\ fs.t = "list"
           THEN IF \E i \in 1..Len(fs.items) : fs.items[i].t # "str"
                THEN Threw(ErrorObj(TypeErrMsg), st1)
                ELSE Returned(
                       [a1 EXCEPT !["files"] =
                          List([i \in 1..Len(fs.items) |->
                                  gitAddFile(a1["repo_path"], fs.items[i])])],
                       st1)
           ELSE Returned(a1, st1)

pathKeys == <<"path", "source", "destination">>

\* mutant: an absolute value is resolved as it is, its directories kept
sanitizeFsValue_noBasename(v, state) ==
  IF Truthy(state.currentRepoPath)
  THEN Str(pathResolve2(state.currentRepoPath.p, v.p))
  ELSE Str(forceUnderBase(BASE_DEMO, v.p))

\* one value of sanitizeFsArgs' loop (lines 79-86), for a string value
sanitizeFsValue(v, state) ==
  IF Truthy(state.currentRepoPath)
  THEN LET asRel == IF isAbsolute(v.p) THEN basename(v.p) ELSE v.p
       IN  Str(pathResolve2(state.currentRepoPath.p, asRel))
  ELSE Str(forceUnderBase(BASE_DEMO, v.p))

\* mutant: the filesystem sanitizer forgets the current repository path
sanitizeFsArgs_forgets(name, args, state) ==
  Returned(args, [state EXCEPT !.currentRepoPath = Null])

sanitizeFsArgs(name, args, state) ==
  LET touched == {k \in {"path", "source", "destination"} : Truthy(args[k])}
  IN  IF \E k \in touched : args[k].t # "str"
      THEN Threw(ErrorObj(TypeErrMsg), state)
      ELSE Returned(
             [k \in ArgKeys |->
                IF k \in touched THEN sanitizeFsValue(args[k], state) ELSE args[k]],
             state)

\* mutant: the sanitizers rewrite the mapping they are given
rawArgsAfter_inPlace(rawArgs, sanitized) == sanitized

\* what a sanitizer call leaves in the mapping it was given: lines 52 and 74
\* copy it before any assignment, line 65 builds a new files array, and the
\* pass-through of line 95 assigns nothing
rawArgsAfter(rawArgs, sanitized) == rawArgs

\* mutant: every tool goes through the filesystem sanitizer
sanitizeArgsByTool_alwaysFs(name, rawArgs, state, sanitizer) ==
  sanitizeFsArgs(name, rawArgs, state)

sanitizeArgsByTool(name, rawArgs, state, sanitizer) ==
  IF sanitizer = "git" THEN sanitizeGitArgs(name, rawArgs, state)
  ELSE IF sanitizer = "fs" THEN sanitizeFsArgs(name, rawArgs, state)
  ELSE Returned(rawArgs, state)

----------------------------------------------------------------------------
(* toolbridge.mjs: the catalog builder *)

\* a listTools answer: an array, an object with a tools array, or neither
Listing(shape, tools) == [shape |-> shape, tools |-> tools]

\* a tool as a provider declares it; description "" and schema "none": absent
Tool(name, description, schema) ==
  [name |-> name, description |-> description, schema |-> schema]

normalizeToolsList(res) ==
  IF res.shape \in {"array", "object"} THEN res.tools ELSE <<>>

toAnthropicTools(mcpTools, label) ==
  LET ts == normalizeToolsList(mcpTools)
  IN  [i \in 1..Len(ts) |->
         [name         |-> ts[i].name,
          description  |-> IF ts[i].description # "" THEN <<ts[i].description>>
                           ELSE <<label, " tool">>,
          input_schema |-> IF ts[i].schema # "none" THEN ts[i].schema ELSE "open"]]

Route(client, sanitizer) == [client |-> client, sanitizer |-> sanitizer]

EmptyMap == [n \in {} |-> Route("", "")]

\* mutant: the first entry of a name stays
mapSet_keepFirst(rm, name, entry) ==
  [n \in DOMAIN rm \cup {name} |-> IF n \in DOMAIN rm THEN rm[n] ELSE entry]

\* routeMap.set(name, entry): a later set of the same name replaces the entry
mapSet(rm, name, entry) ==
  [n \in DOMAIN rm \cup {name} |-> IF n = name THEN entry ELSE rm[n]]

RECURSIVE setRoutes(_, _, _)
setRoutes(rm, tools, s) ==
  IF tools = <<>> THEN rm
  ELSE setRoutes(mapSet(rm, Head(tools).name, Route(s.client, s.sanitizer)),
                 Tail(tools), s)

\* mutant: a tool whose name is in the catalog already is not pushed again
pushTools_unlessListed(catalog, tools) ==
  catalog \o SelectSeq(tools, LAMBDA t : \A i \in DOMAIN catalog : catalog[i].name # t.name)

\* line 32: every tool of the provider is pushed, in listing order
pushTools(catalog, tools) == catalog \o tools

\* the forEach of lines 30-36 over servers k..Len(servers)
RECURSIVE buildFrom(_, _, _, _)
buildFrom(servers, lists, k, acc) ==
  IF k > Len(servers) THEN acc
  ELSE buildFrom(servers, lists, k + 1,
         [toolsForAnthropic |->
            pushTools(acc.toolsForAnthropic, toAnthropicTools(lists[k], servers[k].label)),
          routeMap |->
            setRoutes(acc.routeMap, normalizeToolsList(lists[k]), servers[k])])

\* lists[k] is what listTools(servers[k].client) answers; shape "throws": it
\* rejects, and Promise.all rejects the build
buildToolCatalog(servers, lists) ==
  IF \E k \in 1..Len(lists) : lists[k].shape = "throws"
  THEN [threw |-> TRUE, toolsForAnthropic |-> <<>>, routeMap |-> EmptyMap]
  ELSE LET c == buildFrom(servers, lists, 1,
                          [toolsForAnthropic |-> <<>>, routeMap |-> EmptyMap])
       IN  [threw |-> FALSE, toolsForAnthropic |-> c.toolsForAnthropic,
            routeMap |-> c.routeMap]

Server(label, client, sanitizer) ==
  [label |-> label, client |-> client, sanitizer |-> sanitizer]

\* main.mjs connectAndAnnounceTools: the six providers, in this order
Servers ==
  << Server("filesystem", "fsClient", "fs"),
     Server("git", "gitClient", "git"),
     Server("food", "foodClient", "none"),
     Server("jokes", "jokesClient", "none"),
     Server("wf", "wfClient", "none"),
     Server("trainer", "trainerClient", "none") >>

----------------------------------------------------------------------------
(* toolbridge.mjs: fulfillToolUses *)

TextBlock(text) ==
  [type |-> "text", id |-> 0, name |-> "", input |-> NoArgs, text |-> text]

ToolUse(id, name, input) ==
  [type |-> "tool_use", id |-> id, name |-> name, input |-> input, text |-> ""]

\* what a provider answers to callTool
ContentRes(segs) == [t |-> "content", content |-> segs]

StringRes(s) == [t |-> "string", s |-> s]

ObjectRes == [t |-> "object"]               \* the value {ok: true}

ThrowRes(e) == [t |-> "throw", err |-> e]

TextSeg(s) == [type |-> "text", text |-> s]

ImageSeg == [type |-> "image", data |-> "d"]

JSONstringify(v) ==
  CASE v = ImageSeg  -> "{\"type\":\"image\",\"data\":\"d\"}"
    [] v = ObjectRes -> "{\"ok\":true}"
    [] OTHER         -> "null"

\* Array.prototype.join: texts are sequences of pieces, in order
RECURSIVE joinWith(_, _)
joinWith(pieces, sep) ==
  IF pieces = <<>> THEN <<>>
  ELSE IF Len(pieces) = 1 THEN <<pieces[1]>>
  ELSE <<pieces[1], sep>> \o joinWith(Tail(pieces), sep)

\* mutant: only the text segments are kept, as toText of main.mjs does
textOut_textOnly(res) ==
  IF res.t = "content"
  THEN LET ts == SelectSeq(res.content, LAMBDA g : g.type = "text")
       IN  joinWith([i \in 1..Len(ts) |-> ts[i].text], "\n")
  ELSE IF res.t = "string" THEN <<res.s>>
  ELSE <<JSONstringify(res)>>

\* lines 120-127
textOut(res) ==
  IF res.t = "content"
  THEN joinWith([i \in 1..Len(res.content) |->
                   IF res.content[i].type = "text" THEN res.content[i].text
                   ELSE JSONstringify(res.content[i])], "\n")
  ELSE IF res.t = "string" THEN <<res.s>>
  ELSE <<JSONstringify(res)>>

ToolResult(id, shape, text) ==
  [type |-> "tool_result", tool_use_id |-> id,
   content |-> [shape |-> shape, text |-> text]]

\* mutant: the error text does not name the tool
unregisteredResult_noName(tool_use_id, name) ==
  ToolResult(tool_use_id, "string", <<"ERROR: ", "Tool no registrada en routeMap">>)

\* lines 109-111: content is a plain string
unregisteredResult(tool_use_id, name) ==
  ToolResult(tool_use_id, "string",
             <<"ERROR: ", "Tool no registrada en routeMap: ", name>>)

\* line 129: content is one text block
successResult(tool_use_id, res) == ToolResult(tool_use_id, "blocks", textOut(res))

\* e?.message || String(e)
errText(e) ==
  IF e.t = "Error" THEN (IF e.message # "" THEN e.message ELSE "Error")
  ELSE e.s

\* mutant: no try/catch around the call
onException_rethrow(tool_use_id, e) == [caught |-> FALSE, push |-> <<>>]

\* mutant: the catch logs the error and pushes no result
onException_silent(tool_use_id, e) == [caught |-> TRUE, push |-> <<>>]

\* the catch of lines 131-139: the exception ends here, as a result
onException(tool_use_id, e) ==
  [caught |-> TRUE,
   push   |-> <<ToolResult(tool_use_id, "blocks", <<"ERROR: ", errText(e)>>)>>]

\* routeMap.get(name): the entry, or none
hasRoute(rm, name) == name \in DOMAIN rm

Call(id, client, name, args, reply) ==
  [id |-> id, client |-> client, name |-> name, args |-> args, reply |-> reply]

\* what the providers of this model answer
Replies ==
  { ContentRes(<<TextSeg("ok")>>),
    ContentRes(<<TextSeg("a"), TextSeg("b")>>),
    ContentRes(<<TextSeg("a"), ImageSeg>>),
    StringRes("done"),
    ObjectRes,
    ThrowRes(ErrorObj("boom")),
    ThrowRes([t |-> "string", s |-> "down"]) }

InFulfill == pc = "fulfill" /\ idx <= Len(content)

\* block b goes to the version-control sanitizer with a repo_path of its own
GivesRepo(rm, b) ==
  /\ b.type = "tool_use"
  /\ hasRoute(rm, b.name)
  /\ rm[b.name].sanitizer = "git"
  /\ Truthy(b.input["repo_path"])

\* line 102: a block that is no tool_use is passed over
FulfillSkip ==
  /\ InFulfill
  /\ content[idx].type # "tool_use"
  /\ idx' = idx + 1
  /\ UNCHANGED <<fu, http, sessionState, routeMap, pc, content, results, calls, thrown,
                 explicitRepo>>
  /\ UNCHANGED replVars

\* lines 107-113: no entry in routeMap
FulfillUnregistered ==
  /\ InFulfill
  /\ content[idx].type = "tool_use"
  /\ ~hasRoute(routeMap, content[idx].name)
  /\ results' = Append(results, unregisteredResult(content[idx].id, content[idx].name))
  /\ idx' = idx + 1
  /\ UNCHANGED <<fu, http, sessionState, routeMap, pc, content, calls, thrown,
                 explicitRepo>>
  /\ UNCHANGED replVars

\* what follows an exception inside the try of lines 116-130
AfterException(id, e) ==
  LET h == onException(id, e)
  IN  IF h.caught
      THEN /\ results' = results \o h.push
           /\ idx' = idx + 1
           /\ UNCHANGED <<pc, thrown>>
      ELSE /\ thrown' = e
           /\ pc' = "idle"
           /\ UNCHANGED <<results, idx>>

\* line 117 throws: no call is made
FulfillSanitizeThrows ==
  /\ InFulfill
  /\ content[idx].type = "tool_use"
  /\ hasRoute(routeMap, content[idx].name)
  /\ LET b == content[idx]
         s == sanitizeArgsByTool(b.name, b.input, sessionState,
                                 routeMap[b.name].sanitizer)
     IN  /\ s.threw
         /\ sessionState' = s.state
         /\ explicitRepo' = IF GivesRepo(routeMap, b) THEN Null ELSE explicitRepo
         /\ AfterException(b.id, s.err)
  /\ UNCHANGED <<fu, http, routeMap, content, calls>>
  /\ UNCHANGED <<messages, toolsMode, toolsForAnthropic, clients, listings, ask, lastText>>

\* lines 117-130: sanitized, dispatched, and the provider answers (one of R)
\* or fails
FulfillCall(R) ==
  /\ InFulfill
  /\ content[idx].type = "tool_use"
  /\ hasRoute(routeMap, content[idx].name)
  /\ LET b == content[idx]
         s == sanitizeArgsByTool(b.name, b.input, sessionState,
                                 routeMap[b.name].sanitizer)
     IN  /\ ~s.threw
         /\ sessionState' = s.state
         /\ explicitRepo' = IF GivesRepo(routeMap, b) THEN s.args["repo_path"]
                            ELSE explicitRepo
         \* the block is the caller's object, and in a session the one the
         \* assistant turn pushed at main.mjs lines 166 and 174 holds
         /\ content' = [content EXCEPT ![idx].input = rawArgsAfter(b.input, s.args)]
         /\ messages' = IF ask.status = "running"
                        THEN [messages EXCEPT ![Len(messages)].body = content']
                        ELSE messages
         /\ \E reply \in R :
              /\ calls' = Append(calls,
                    Call(b.id, routeMap[b.name].client, b.name, s.args, reply))
              /\ IF reply.t = "throw"
                 THEN AfterException(b.id, reply.err)
                 ELSE /\ results' = Append(results, successResult(b.id, reply))
                      /\ idx' = idx + 1
                      /\ UNCHANGED <<pc, thrown>>
  /\ ask' = IF ask.status = "running"
            THEN [ask EXCEPT !.dispatched = @ + 1] ELSE ask
  /\ UNCHANGED <<fu, http, routeMap>>
  /\ UNCHANGED <<toolsMode, toolsForAnthropic, clients, listings, lastText>>

\* one turn of the for-loop of lines 101-140
FulfillStep(R) ==
  \/ FulfillSkip
  \/ FulfillUnregistered
  \/ FulfillSanitizeThrows
  \/ FulfillCall(R)

\* the loop is over and `return results` (line 142) is next
FulfillOver == pc = "fulfill" /\ idx > Len(content)

\* line 142, for a caller other than askAnthropicWithTools: the results are
\* handed over and the locals of the call are gone
FulfillReturn ==
  /\ FulfillOver
  /\ ask.status # "running"
  /\ pc' = "idle"
  /\ content' = <<>>
  /\ idx' = 1
  /\ results' = <<>>
  /\ calls' = <<>>
  /\ UNCHANGED <<fu, http, sessionState, routeMap, thrown, explicitRepo>>
  /\ UNCHANGED replVars

----------------------------------------------------------------------------
(* fulfillToolUses called with one routing table and one session state:     *)
(* the contents and arguments the model may send                            *)

P(abs, segs) == Str(PathStr(abs, segs))

\* "", a, a/b, ., .., ../x, ../../etc, a/../.., /, /etc/passwd, /w/repos/a,
\* /w/repos/a/f, /w/demo/x, /w/repos/.., and the number 7
ArgVals ==
  { P(FALSE, <<>>), P(FALSE, <<"a">>), P(FALSE, <<"a", "b">>), P(FALSE, <<".">>),
    P(FALSE, <<"..">>), P(FALSE, <<"..", "x">>), P(FALSE, <<"..", "..", "etc">>),
    P(FALSE, <<"a", "..", "..">>), P(TRUE, <<>>), P(TRUE, <<"etc", "passwd">>),
    P(TRUE, <<"w", "repos", "a">>), P(TRUE, <<"w", "repos", "a", "f">>),
    P(TRUE, <<"w", "demo", "x">>), P(TRUE, <<"w", "repos", "..">>), Num }

FileLists ==
  { List(<<P(TRUE, <<"w", "repos", "a", "f">>), P(FALSE, <<"g">>)>>),
    List(<<P(TRUE, <<"w", "repos", "a">>)>>),
    List(<<P(TRUE, <<"etc", "x">>)>>),
    List(<<Num>>) }

With(k, v) == [NoArgs EXCEPT ![k] = v]

With2(k1, v1, k2, v2) == [NoArgs EXCEPT ![k1] = v1, ![k2] = v2]

\* single tool_use blocks with the arguments that matter to the sanitizers
RichBlocks ==
  {ToolUse(1, "git_status", With("repo_path", v)) : v \in ArgVals \cup {Absent}}
  \cup {ToolUse(1, "git_add", With2("repo_path", r, "files", f)) :
          r \in {Absent, P(FALSE, <<"a">>), P(FALSE, <<"b">>)}, f \in FileLists}
  \cup {ToolUse(1, "git_status", With("files", f)) : f \in FileLists}
  \cup {ToolUse(1, "write_file", With2("path", v, "q", P(FALSE, <<"x">>))) :
          v \in ArgVals \cup {Absent}}
  \cup {ToolUse(1, "write_file",
                With2("source", P(FALSE, <<"a">>),
                      "destination", P(FALSE, <<"..", "..", "b">>)))}
  \cup {ToolUse(1, "jokes_get", With2("q", P(FALSE, <<"x">>), "path", P(FALSE, <<"..">>)))}

\* the blocks of the responses of several blocks
CoreBlocks ==
  { TextBlock("hi"),
    ToolUse(0, "nope", With("path", P(FALSE, <<"..">>))),
    ToolUse(0, "git_status", With("repo_path", P(FALSE, <<"a">>))),
    ToolUse(0, "git_status", NoArgs),
    ToolUse(0, "write_file", With("path", P(FALSE, <<"f">>))),
    ToolUse(0, "write_file", With("path", Num)),
    ToolUse(0, "jokes_get", With("q", P(FALSE, <<"x">>))) }

\* the model gives every tool_use block an id of its own: here its position
numbered(blocks) ==
  [i \in 1..Len(blocks) |->
     IF blocks[i].type = "tool_use" THEN [blocks[i] EXCEPT !.id = i] ELSE blocks[i]]

Contents ==
  {<<b>> : b \in RichBlocks}
  \cup {numbered(bs) : bs \in SeqsUpTo(CoreBlocks, MaxBlocks)}

\* what the six providers list in a usual session
UsualLists ==
  << Listing("array", <<Tool("write_file", "Write a file", "declared")>>),
     Listing("object", <<Tool("git_status", "", "declared"),
                         Tool("git_add", "Stage files", "none")>>),
     Listing("array", <<>>),
     Listing("array", <<Tool("jokes_get", "Devuelve un dad joke aleatorio.", "declared")>>),
     Listing("other", <<>>),
     Listing("array", <<>>) >>

\* no callTool of a remote connection of its own is under way
HttpIdle == [def |-> "second", name |-> "", resp |-> "none", out |-> "none",
             done |-> TRUE]

\* no forceUnderBase of its own is under way
FuIdle == [base |-> BASE_REPOS, input |-> EmptyStr, out |-> NoPath, done |-> TRUE]

NoAsk == [status |-> "none", queries |-> 0, toolResponses |-> 0, resultTurns |-> 0,
          dispatched |-> 0, base |-> 0]

AllClients == {"fsClient", "gitClient", "foodClient", "jokesClient", "wfClient",
               "trainerClient"}

\* main.mjs lines 54-64: the state of a session that has just started
SessionStart ==
  /\ fu = FuIdle
  /\ http = HttpIdle
  /\ sessionState = [currentRepoPath |-> Null]
  /\ routeMap = EmptyMap
  /\ pc = "idle"
  /\ content = <<>>
  /\ idx = 1
  /\ results = <<>>
  /\ calls = <<>>
  /\ thrown = NoErr
  /\ explicitRepo = Null
  /\ messages = <<>>
  /\ toolsMode = FALSE
  /\ toolsForAnthropic = <<>>
  /\ clients = [c \in AllClients |-> FALSE]
  /\ listings = <<>>
  /\ ask = NoAsk
  /\ lastText = <<>>

\* fulfillToolUses with the routing table of a usual build and a fresh
\* session state
InitBridge ==
  /\ fu = FuIdle
  /\ http = HttpIdle
  /\ sessionState = [currentRepoPath |-> Null]
  /\ routeMap = buildToolCatalog(Servers, UsualLists).routeMap
  /\ pc = "idle"
  /\ content = <<>>
  /\ idx = 1
  /\ results = <<>>
  /\ calls = <<>>
  /\ thrown = NoErr
  /\ explicitRepo = Null
  /\ messages = <<>>
  /\ toolsMode = FALSE
  /\ toolsForAnthropic = buildToolCatalog(Servers, UsualLists).toolsForAnthropic
  /\ clients = [c \in AllClients |-> TRUE]
  /\ listings = UsualLists
  /\ ask = NoAsk
  /\ lastText = <<>>

\* a caller hands a response's content (one of C) to fulfillToolUses
CallFulfill(C) ==
  /\ pc = "idle"
  /\ thrown = NoErr
  /\ \E c \in C : content' = c
  /\ idx' = 1
  /\ results' = <<>>
  /\ calls' = <<>>
  /\ pc' = "fulfill"
  /\ UNCHANGED <<fu, http, sessionState, routeMap, thrown, explicitRepo>>
  /\ UNCHANGED replVars

NextBridge == CallFulfill(Contents) \/ FulfillStep(Replies) \/ FulfillReturn

SpecBridge == InitBridge /\ [][NextBridge]_vars

----------------------------------------------------------------------------
(* main.mjs: the interactive session *)

\* String.prototype.trim on a text of pieces: the pieces of white space at
\* either end go (the other pieces start and end with a visible character)
Blank == {"", " ", "\n"}

RECURSIVE trimStart(_)
trimStart(t) ==
  IF t # <<>> /\ Head(t) \in Blank THEN trimStart(Tail(t)) ELSE t

RECURSIVE trimEnd(_)
trimEnd(t) ==
  IF t # <<>> /\ Last(t) \in Blank THEN trimEnd(Front(t)) ELSE t

trim(t) == trimEnd(trimStart(t))

\* main.mjs extractText
extractText(blocks) ==
  LET ts == SelectSeq(blocks, LAMBDA b : b.type = "text")
  IN  trim(joinWith([i \in 1..Len(ts) |-> ts[i].text], "\n"))

Placeholder == <<"(Sin texto en la respuesta)">>

\* mutant: the text as it is, with no placeholder for an empty one
finalText_noPlaceholder(blocks) == extractText(blocks)

\* extractText(resp.content) || '(Sin texto en la respuesta)'
finalText(blocks) ==
  IF extractText(blocks) # <<>> THEN extractText(blocks) ELSE Placeholder

Msg(role, shape, body) == [role |-> role, shape |-> shape, body |-> body]

\* mutant: a response with no block is not recorded
pushAssistant_unlessEmpty(msgs, respContent) ==
  IF respContent = <<>> THEN msgs
  ELSE Append(msgs, Msg("assistant", "blocks", respContent))

\* messages.push({ role: 'assistant', content: resp.content }), lines 165, 174
pushAssistant(msgs, respContent) ==
  Append(msgs, Msg("assistant", "blocks", respContent))

HasToolUse(blocks) == \E i \in 1..Len(blocks) : blocks[i].type = "tool_use"

\* mutant: the results are sent once and the loop ends
loopAgain_never(toolResults) == FALSE

\* the condition of the while of line 170
loopAgain(toolResults) == Len(toolResults) > 0

\* what rejects askLoop when nothing catches it: a connect or a listing failed
ConnectError == ErrorObj("connect failed")

CatalogError == ErrorObj("list failed")

\* the connect attempts of ensureMcpConnected, in order
ConnectOrder == <<"fsClient", "gitClient", "foodClient", "jokesClient", "wfClient",
                  "trainerClient">>

\* a provider's configuration cannot be read (servers.mjs throws)
ConfigFails == Len(ConnectOrder) + 1

\* what can go wrong in one ensureMcpConnected: nothing (0), the connect
\* attempt at a position of ConnectOrder, or a configuration
ConnectFaults == 0..ConfigFails

\* lines 76-92; failAt: the position of the connect attempt that rejects, if
\* it is made (0: none rejects; ConfigFails: lines 79-84 throw before any
\* attempt)
ensureMcpConnected(cl, failAt) ==
  IF cl["fsClient"] /\ cl["gitClient"] /\ cl["foodClient"] /\ cl["jokesClient"]
     /\ cl["wfClient"]
  THEN [threw |-> FALSE, clients |-> cl]
  ELSE IF failAt = ConfigFails
  THEN [threw |-> TRUE, clients |-> cl]
  ELSE IF failAt # 0 /\ ~cl[ConnectOrder[failAt]]
  THEN [threw |-> TRUE,
        clients |-> [c \in AllClients |->
                       cl[c] \/ \E k \in 1..(failAt - 1) : ConnectOrder[k] = c]]
  ELSE [threw |-> FALSE, clients |-> [c \in AllClients |-> TRUE]]

\* listTools(null) rejects: a provider that is not connected cannot list
Answered(cl, ls) ==
  [k \in 1..Len(ls) |-> IF cl[Servers[k].client] THEN ls[k] ELSE Listing("throws", <<>>)]

\* two providers declare git_status; one listing is an object, one is neither
ClashLists ==
  << Listing("array", <<Tool("write_file", "Write a file", "declared"),
                        Tool("git_status", "", "none")>>),
     Listing("object", <<Tool("git_status", "", "declared")>>),
     Listing("array", <<>>),
     Listing("array", <<>>),
     Listing("other", <<>>),
     Listing("array", <<>>) >>

NoToolLists == [k \in 1..6 |-> Listing("array", <<>>)]

FailingLists == [UsualLists EXCEPT ![3] = Listing("throws", <<>>)]

SessionLists == {UsualLists, ClashLists, NoToolLists, FailingLists}

\* what the model answers in a session
SessionResponses ==
  { <<TextBlock("hi")>>,
    <<>>,
    <<TextBlock(" "), TextBlock("hi"), TextBlock("")>>,
    numbered(<<ToolUse(0, "git_status", With("repo_path", P(FALSE, <<"a">>)))>>),
    numbered(<<TextBlock("hi"), ToolUse(0, "write_file", With("path", P(FALSE, <<"f">>)))>>),
    numbered(<<ToolUse(0, "write_file", With("path", Num)),
               ToolUse(0, "git_status", NoArgs)>>),
    numbered(<<ToolUse(0, "git_add",
                       With2("repo_path", P(FALSE, <<"a">>),
                             "files", List(<<P(TRUE, <<"w", "repos", "a", "f">>)>>)))>>),
    numbered(<<ToolUse(0, "nope", NoArgs)>>) }

\* what the providers answer in a session
SessionReplies == { ContentRes(<<TextSeg("ok")>>), ThrowRes(ErrorObj("boom")) }

AtPrompt == pc = "idle" /\ thrown = NoErr

\* line 284
Salir ==
  /\ AtPrompt
  /\ pc' = "exited"
  /\ UNCHANGED <<fu, http, sessionState, routeMap, content, idx, results, calls, thrown,
                 explicitRepo>>
  /\ UNCHANGED replVars

\* lines 285-289
Clear ==
  /\ AtPrompt
  /\ messages # <<>>
  /\ messages' = <<>>
  /\ UNCHANGED <<fu, http, sessionState, routeMap, pc, content, idx, results, calls,
                 thrown, explicitRepo>>
  /\ UNCHANGED <<toolsMode, toolsForAnthropic, clients, listings, ask, lastText>>

\* mutant: the routes of the new build are added to the ones in place
installRoutes_merged(old, new) ==
  [n \in DOMAIN old \cup DOMAIN new |-> IF n \in DOMAIN new THEN new[n] ELSE old[n]]

\* routeMap = catalog.routeMap, line 202
installRoutes(old, new) == new

\* the faults that can show with these clients: an attempt is made only for
\* a provider that is not connected, and none after the early return
FaultsFor(cl) ==
  {f \in ConnectFaults :
     \/ f = 0
     \/ /\ ensureMcpConnected(cl, ConfigFails).threw
        /\ (f = ConfigFails \/ ~cl[ConnectOrder[f]])}

\* line 290: a connect attempt that rejects is caught nowhere
McpConnect ==
  /\ AtPrompt
  /\ \E failAt \in FaultsFor(clients) :
       LET e == ensureMcpConnected(clients, failAt)
       IN  /\ clients' = e.clients
           /\ pc' = IF e.threw THEN "crashed" ELSE "idle"
           /\ thrown' = IF e.threw THEN ConnectError ELSE thrown
  /\ UNCHANGED <<fu, http, sessionState, routeMap, content, idx, results, calls,
                 explicitRepo>>
  /\ UNCHANGED <<messages, toolsMode, toolsForAnthropic, listings, ask, lastText>>

\* lines 291-295 with runGitDemo (lines 231-269): the demo talks to the
\* providers directly, and what rejects is caught at line 293
DemoGit ==
  /\ AtPrompt
  /\ \E failAt \in FaultsFor(clients) :
       clients' = ensureMcpConnected(clients, failAt).clients
  /\ UNCHANGED <<fu, http, sessionState, routeMap, pc, content, idx, results, calls,
                 thrown, explicitRepo>>
  /\ UNCHANGED <<messages, toolsMode, toolsForAnthropic, listings, ask, lastText>>

\* lines 296-301 with connectAndAnnounceTools (lines 189-223): a rejection of
\* the connect or of the build is caught nowhere
ToolsOn ==
  /\ AtPrompt
  /\ \E failAt \in FaultsFor(clients), ls \in SessionLists :
       LET e == ensureMcpConnected(clients, failAt)
           c == buildToolCatalog(Servers, Answered(e.clients, ls))
       IN  /\ clients' = e.clients
           /\ IF e.threw
              THEN /\ pc' = "crashed"
                   /\ thrown' = ConnectError
                   /\ UNCHANGED <<toolsForAnthropic, routeMap, toolsMode, listings>>
              ELSE IF c.threw
              THEN /\ pc' = "crashed"
                   /\ thrown' = CatalogError
                   /\ listings' = Answered(e.clients, ls)
                   /\ UNCHANGED <<toolsForAnthropic, routeMap, toolsMode>>
              ELSE /\ toolsForAnthropic' = c.toolsForAnthropic
                   /\ routeMap' = installRoutes(routeMap, c.routeMap)
                   /\ listings' = Answered(e.clients, ls)
                   /\ toolsMode' = TRUE
                   /\ pc' = "idle"
                   /\ UNCHANGED thrown
  /\ UNCHANGED <<fu, http, sessionState, content, idx, results, calls, explicitRepo>>
  /\ UNCHANGED <<messages, ask, lastText>>

\* lines 302-306
ToolsOff ==
  /\ AtPrompt
  /\ toolsMode
  /\ toolsMode' = FALSE
  /\ UNCHANGED <<fu, http, sessionState, routeMap, pc, content, idx, results, calls,
                 thrown, explicitRepo>>
  /\ UNCHANGED <<messages, toolsForAnthropic, clients, listings, ask, lastText>>

\* mutant: a catalog is used whenever there is one
useTools_whenCatalog(mode, catalog) == Len(catalog) > 0

\* line 314
useTools(mode, catalog) == mode /\ Len(catalog) > 0

\* lines 308-314 and 164: the user turn is pushed and the model is queried,
\* with the catalog when tools mode is on and the catalog is not empty
Prompt ==
  /\ AtPrompt
  /\ Len(messages) < MaxMessages
  /\ messages' = Append(messages, Msg("user", "string", <<"hello">>))
  /\ IF useTools(toolsMode, toolsForAnthropic)
     THEN /\ pc' = "query"
          /\ ask' = [status |-> "running", queries |-> 1, toolResponses |-> 0,
                     resultTurns |-> 0, dispatched |-> 0, base |-> Len(messages) + 1]
     ELSE /\ pc' = "plain"
          /\ ask' = NoAsk
  /\ UNCHANGED <<fu, http, sessionState, routeMap, content, idx, results, calls, thrown,
                 explicitRepo>>
  /\ UNCHANGED <<toolsMode, toolsForAnthropic, clients, listings, lastText>>

\* lines 321-326: no catalog is sent, so the response has no tool_use
PlainResponse ==
  /\ pc = "plain"
  /\ \E r \in {c \in SessionResponses : ~HasToolUse(c)} :
       /\ lastText' = finalText(r)
       /\ messages' = Append(messages, Msg("assistant", "string", finalText(r)))
  /\ pc' = "idle"
  /\ UNCHANGED <<fu, http, sessionState, routeMap, content, idx, results, calls, thrown,
                 explicitRepo>>
  /\ UNCHANGED <<toolsMode, toolsForAnthropic, clients, listings, ask>>

\* mutant: the rejection leaves askLoop
onQueryError_uncaught(at) == "crashed"

\* the try of lines 312-326 covers both queries: the catch of lines 327-331
\* reports and the while loop goes on to the next prompt
onQueryError(at) == "idle"

\* lines 327-331: the query rejects; the catch of askLoop ends the turn
QueryFails ==
  /\ pc \in {"plain", "query"}
  /\ pc' = onQueryError(pc)
  /\ ask' = IF pc = "query" THEN [ask EXCEPT !.status = "failed"] ELSE ask
  /\ UNCHANGED <<fu, http, sessionState, routeMap, content, idx, results, calls, thrown,
                 explicitRepo>>
  /\ UNCHANGED <<messages, toolsMode, toolsForAnthropic, clients, listings, lastText>>

\* lines 164-167 and 173-176: the response is pushed as an assistant turn and
\* its content goes to fulfillToolUses
AskResponse ==
  /\ pc = "query"
  /\ \E r \in SessionResponses :
       /\ HasToolUse(r) => ask.queries < MaxQueries
       /\ messages' = pushAssistant(messages, r)
       /\ content' = r
       /\ ask' = IF HasToolUse(r) THEN [ask EXCEPT !.toolResponses = @ + 1] ELSE ask
  /\ idx' = 1
  /\ results' = <<>>
  /\ calls' = <<>>
  /\ pc' = "fulfill"
  /\ UNCHANGED <<fu, http, sessionState, routeMap, thrown, explicitRepo>>
  /\ UNCHANGED <<toolsMode, toolsForAnthropic, clients, listings, lastText>>

\* lines 170-171: the round's results go back as one user turn and the model
\* is queried again
AskAgain ==
  /\ FulfillOver
  /\ ask.status = "running"
  /\ loopAgain(results)
  /\ messages' = Append(messages, Msg("user", "results", results))
  /\ ask' = [ask EXCEPT !.queries = @ + 1, !.resultTurns = @ + 1]
  /\ pc' = "query"
  /\ content' = <<>>
  /\ idx' = 1
  /\ results' = <<>>
  /\ calls' = <<>>
  /\ UNCHANGED <<fu, http, sessionState, routeMap, thrown, explicitRepo>>
  /\ UNCHANGED <<toolsMode, toolsForAnthropic, clients, listings, lastText>>

\* lines 179-180 and 316-319: no result, the text of the response is returned
\* and printed
AskReturn ==
  /\ FulfillOver
  /\ ask.status = "running"
  /\ ~loopAgain(results)
  /\ lastText' = finalText(content)
  /\ ask' = [ask EXCEPT !.status = "returned"]
  /\ pc' = "idle"
  /\ content' = <<>>
  /\ idx' = 1
  /\ results' = <<>>
  /\ calls' = <<>>
  /\ UNCHANGED <<fu, http, sessionState, routeMap, thrown, explicitRepo>>
  /\ UNCHANGED <<messages, toolsMode, toolsForAnthropic, clients, listings>>

Init == SessionStart

Next ==
  \/ Salir
  \/ Clear
  \/ McpConnect
  \/ DemoGit
  \/ ToolsOn
  \/ ToolsOff
  \/ Prompt
  \/ PlainResponse
  \/ QueryFails
  \/ AskResponse
  \/ FulfillStep(SessionReplies)
  \/ AskAgain
  \/ AskReturn

Spec == Init /\ [][Next]_vars

----------------------------------------------------------------------------
(* buildToolCatalog on its own: one build from what six providers list, and
   then tool_use blocks dispatched through the table it built *)

\* what one provider may list: status; status and write_file; nothing; a
\* value that is neither an array nor an object with tools; a rejection
ListingChoices ==
  { Listing("array", <<Tool("status", "", "none")>>),
    Listing("object", <<Tool("status", "Show status", "declared"),
                        Tool("write_file", "", "declared")>>),
    Listing("array", <<>>),
    Listing("other", <<>>),
    Listing("throws", <<>>) }

CatalogContents ==
  {numbered(<<TextBlock("hi"), ToolUse(0, n, With("path", v))>>) :
     n \in {"status", "write_file", "other"}, v \in {Absent, Num}}

InitCatalog ==
  /\ fu = FuIdle
  /\ http = HttpIdle
  /\ sessionState = [currentRepoPath |-> Null]
  /\ routeMap = EmptyMap
  /\ pc = "start"
  /\ content = <<>>
  /\ idx = 1
  /\ results = <<>>
  /\ calls = <<>>
  /\ thrown = NoErr
  /\ explicitRepo = Null
  /\ messages = <<>>
  /\ toolsMode = FALSE
  /\ toolsForAnthropic = <<>>
  /\ clients = [c \in AllClients |-> TRUE]
  /\ listings \in [1..Len(Servers) -> ListingChoices]
  /\ ask = NoAsk
  /\ lastText = <<>>

\* the caller of lines 192-202 takes the catalog, or the build rejects
BuildCatalog ==
  /\ pc = "start"
  /\ LET c == buildToolCatalog(Servers, listings)
     IN  IF c.threw
         THEN /\ pc' = "rejected"
              /\ UNCHANGED <<toolsForAnthropic, routeMap>>
         ELSE /\ pc' = "idle"
              /\ toolsForAnthropic' = c.toolsForAnthropic
              /\ routeMap' = c.routeMap
  /\ UNCHANGED <<fu, http, sessionState, content, idx, results, calls, thrown,
                 explicitRepo>>
  /\ UNCHANGED <<messages, toolsMode, clients, listings, ask, lastText>>

NextCatalog ==
  \/ BuildCatalog
  \/ CallFulfill(CatalogContents)
  \/ FulfillStep(SessionReplies)
  \/ FulfillReturn

SpecCatalog == InitCatalog /\ [][NextCatalog]_vars

----------------------------------------------------------------------------
(* connect_http.mjs: callTool of a remote connection. The file holds two
   definitions of connectHttpServer, one after the other (lines 3-61 and
   64-148); def says which one the connection was made by. *)

\* nameMap[name] || name
nameMap(name) ==
  CASE name = "jokes_get"    -> "jokes.get"
    [] name = "jokes_search" -> "jokes.search"
    [] name = "health_ping"  -> "health.ping"
    [] OTHER                 -> name

\* the body of an HTTP response: no JSON, or a JSON object with a result
\* ("undefined": none) and an error ("none": no error field, "nomessage": an
\* error object with no message, else its message)
NonJson == [json |-> FALSE, result |-> "undefined", error |-> "none"]

JsonBody(result, error) == [json |-> TRUE, result |-> result, error |-> error]

\* net FALSE: fetch itself rejects
HttpResp(net, status, body) == [net |-> net, status |-> status, body |-> body]

\* res.ok
resOk(r) == r.status = "200"

HttpValue(v) == [threw |-> FALSE, value |-> v, msg |-> <<>>]

HttpFailure(msg) == [threw |-> TRUE, value |-> "undefined", msg |-> msg]

\* lines 41-49: msg is computed and dropped, data.result is returned
jsonRpc_first(method, r) ==
  IF ~r.net THEN HttpFailure(<<"fetch failed">>)
  ELSE LET data == IF r.body.json THEN r.body ELSE JsonBody("undefined", "none")
       IN  HttpValue(data.result)

\* lines 102-124
jsonRpc_second(method, r) ==
  IF ~r.net THEN HttpFailure(<<"fetch failed">>)
  ELSE IF ~r.body.json
  THEN HttpFailure(<<"Respuesta inválida del servidor (no es JSON) - HTTP ", r.status>>)
  ELSE IF ~resOk(r) \/ r.body.error # "none"
  THEN IF r.body.error \notin {"none", "nomessage"}
       THEN HttpFailure(<<"Error al llamar a ", method, ": ", r.body.error>>)
       ELSE HttpFailure(<<"Error al llamar a ", method, ": ", "HTTP ", r.status>>)
  ELSE HttpValue(r.body.result)

\* lines 55-58
callTool_first(name, r) == jsonRpc_first(nameMap(name), r)

\* lines 130-145; NotAString: a name that is no string
NotAString == "<7>"

callTool_second(name, r) ==
  IF name = NotAString THEN HttpFailure(<<"Nombre de tool inválido: ", "7">>)
  ELSE jsonRpc_second(nameMap(name), r)

HttpNames == {"jokes_get", "jokes_search", "health_ping", "tools/call", "other",
              NotAString}

HttpStatuses == {"200", "404", "500"}

HttpBodies ==
  {NonJson} \cup {JsonBody(res, err) : res \in {"undefined", "joke"},
                                       err \in {"none", "nomessage", "remote boom"}}

HttpResponses ==
  {HttpResp(FALSE, "none", NonJson)}
  \cup {HttpResp(TRUE, st, b) : st \in HttpStatuses, b \in HttpBodies}

InitHttp ==
  /\ \E d \in {"first", "second"}, n \in HttpNames, r \in HttpResponses :
       http = [def |-> d, name |-> n, resp |-> r, out |-> "none", done |-> FALSE]
  /\ fu = FuIdle
  /\ sessionState = [currentRepoPath |-> Null]
  /\ routeMap = EmptyMap
  /\ pc = "http"
  /\ content = <<>>
  /\ idx = 1
  /\ results = <<>>
  /\ calls = <<>>
  /\ thrown = NoErr
  /\ explicitRepo = Null
  /\ messages = <<>>
  /\ toolsMode = FALSE
  /\ toolsForAnthropic = <<>>
  /\ clients = [c \in AllClients |-> FALSE]
  /\ listings = <<>>
  /\ ask = NoAsk
  /\ lastText = <<>>

HttpCallTool ==
  /\ pc = "http"
  /\ ~http.done
  /\ http' = [http EXCEPT
                !.out = IF http.def = "first" THEN callTool_first(http.name, http.resp)
                        ELSE callTool_second(http.name, http.resp),
                !.done = TRUE]
  /\ UNCHANGED <<fu, sessionState, routeMap, pc, content, idx, results, calls,
                 thrown, explicitRepo>>
  /\ UNCHANGED replVars

NextHttp == HttpCallTool

SpecHttp == InitHttp /\ [][NextHttp]_vars

----------------------------------------------------------------------------
(* forceUnderBase on its own: one application to a base and an input *)

InitPath ==
  /\ \E b \in Bases, p \in PathInputs :
       fu = [base |-> b, input |-> p, out |-> NoPath, done |-> FALSE]
  /\ http = HttpIdle
  /\ sessionState = [currentRepoPath |-> Null]
  /\ routeMap = EmptyMap
  /\ pc = "path"
  /\ content = <<>>
  /\ idx = 1
  /\ results = <<>>
  /\ calls = <<>>
  /\ thrown = NoErr
  /\ explicitRepo = Null
  /\ messages = <<>>
  /\ toolsMode = FALSE
  /\ toolsForAnthropic = <<>>
  /\ clients = [c \in AllClients |-> FALSE]
  /\ listings = <<>>
  /\ ask = NoAsk
  /\ lastText = <<>>

ApplyForceUnderBase ==
  /\ pc = "path"
  /\ ~fu.done
  /\ fu' = [fu EXCEPT !.out = forceUnderBase(fu.base, fu.input), !.done = TRUE]
  /\ UNCHANGED <<http, sessionState, routeMap, pc, content, idx, results, calls,
                 thrown, explicitRepo>>
  /\ UNCHANGED replVars

NextPath == ApplyForceUnderBase

SpecPath == InitPath /\ [][NextPath]_vars

----------------------------------------------------------------------------
(* Claims *)

\* p is B itself or starts with B followed by the separator
InsideBase(p, B) ==
  \/ p = B
  \/ /\ p.abs
     /\ Len(p.segs) > Len(B.segs)
     /\ \A i \in 1..Len(B.segs) : p.segs[i] = B.segs[i]
     /\ \A i \in 1..Len(p.segs) : p.segs[i] \notin {"..", "."}

\* C1: for every base B and input path p, forceUnderBase(B, p) is B itself or
\* a path that starts with B followed by the separator (never B's parent or
\* any other path outside B).
C1_ForceUnderBaseInside == fu.done => InsideBase(fu.out, fu.base)

IsToolUse(b) == b.type = "tool_use"

Registered(b) == IsToolUse(b) /\ b.name \in DOMAIN routeMap

\* the blocks the running call has been through
Processed == IF pc = "fulfill" THEN 1..(idx - 1) ELSE {}

ResultsFor(id) == {k \in DOMAIN results : results[k].tool_use_id = id}

CallsFor(id) == {k \in DOMAIN calls : calls[k].id = id}

BlockOf(id) == content[CHOOSE j \in DOMAIN content : IsToolUse(content[j]) /\ content[j].id = id]

KindOf(c) == routeMap[c.name].sanitizer

ConfinedValue(v) ==
  \/ ~Truthy(v)
  \/ /\ v.t = "str"
     /\ InsideBase(v.p, BASE_REPOS) \/ InsideBase(v.p, BASE_DEMO)

\* C2: every repo_path, path, source and destination value that a call
\* sanitized under the filesystem or version-control kind hands to dispatch is
\* an absolute path inside the repository base or the demo base.
C2_DispatchedPathsConfined ==
  \A k \in DOMAIN calls :
    KindOf(calls[k]) \in {"fs", "git"} =>
      \A key \in {"repo_path", "path", "source", "destination"} :
        ConfinedValue(calls[k].args[key])

HasPiece(text, piece) == \E i \in DOMAIN text : text[i] = piece

\* C3: a tool_use block whose name is not in the routing table gets one
\* tool_result with its id whose content is an error text holding the tool
\* name; no callTool is made for it and the session state is left as it was.
C3_UnregisteredIsErrorOnly ==
  [][ (InFulfill /\ IsToolUse(content[idx]) /\ content[idx].name \notin DOMAIN routeMap)
      => /\ Len(results') = Len(results) + 1
         /\ SubSeq(results', 1, Len(results)) = results
         /\ Last(results').type = "tool_result"
         /\ Last(results').tool_use_id = content[idx].id
         /\ Last(results').content.text[1] = "ERROR: "
         /\ HasPiece(Last(results').content.text, content[idx].name)
         /\ calls' = calls
         /\ sessionState' = sessionState
         /\ thrown' = NoErr ]_vars

C3_Witness ==
  /\ pc = "fulfill"
  /\ \E j \in Processed :
       /\ IsToolUse(content[j])
       /\ ~Registered(content[j])
       /\ ResultsFor(content[j].id) # {}
       /\ CallsFor(content[j].id) = {}

\* the message of what was thrown: an Error's message, or the thrown string
MessageOf(e) == IF e.t = "Error" THEN e.message ELSE e.s

ErrorContent(m) == [shape |-> "blocks", text |-> <<"ERROR: ", m>>]

\* C4: when sanitizing or dispatching a registered tool_use block throws,
\* the block gets a tool_result whose text is "ERROR: " and the error message,
\* the loop goes on with the next block, and no exception leaves
\* fulfillToolUses.
C4_FailuresBecomeResults ==
  /\ thrown = NoErr
  /\ pc = "idle" => content = <<>>
  /\ \A j \in Processed :
       Registered(content[j]) =>
         LET id == content[j].id
         IN  /\ Cardinality(ResultsFor(id)) = 1
             /\ CallsFor(id) = {} =>
                  \A k \in ResultsFor(id) : results[k].content = ErrorContent(TypeErrMsg)
             /\ \A c \in CallsFor(id) :
                  calls[c].reply.t = "throw" =>
                    \A k \in ResultsFor(id) :
                      results[k].content = ErrorContent(MessageOf(calls[c].reply.err))

C4_Witness ==
  /\ pc = "fulfill"
  /\ Len(content) = 2
  /\ idx = 3
  /\ Registered(content[1])
  /\ \E c \in CallsFor(content[1].id) : calls[c].reply.t = "throw"
  /\ Registered(content[2])
  /\ CallsFor(content[2].id) = {}
  /\ Len(results) = 2

\* C5: after a version-control call with an explicit repo_path, every
\* version-control call without one (filesystem and none calls in between or
\* not) returns the repo_path that the explicit call returned.
C5_OmittedRepoPathRepeatsExplicit ==
  (calls # <<>> /\ explicitRepo # Null) =>
    LET c == Last(calls)
    IN  (KindOf(c) = "git" /\ ~Truthy(BlockOf(c.id).input["repo_path"]))
          => c.args["repo_path"] = explicitRepo

C5_Witness ==
  /\ Len(calls) = 2
  /\ explicitRepo # Null
  /\ KindOf(calls[1]) = "fs"
  /\ KindOf(calls[2]) = "git"
  /\ ~Truthy(BlockOf(calls[2].id).input["repo_path"])
  /\ calls[2].args["repo_path"] = explicitRepo

Declares(k, n) ==
  \E i \in 1..Len(normalizeToolsList(listings[k])) :
    normalizeToolsList(listings[k])[i].name = n

DeclaredNames == {"status", "write_file", "git_status", "git_add", "jokes_get"}

Declaring(n) == {k \in 1..Len(listings) : Declares(k, n)}

LastDeclaring(n) == CHOOSE k \in Declaring(n) : \A j \in Declaring(n) : j <= k

\* C6: after a build from providers in order, a tool name that two or more of
\* them declare is routed to the connection and the sanitizer kind of the last
\* provider declaring it, and every call dispatched for a tool_use of that name
\* goes to that provider's connection, once.
C6_LastProviderWins ==
  pc \in {"idle", "fulfill"} =>
    \A n \in DeclaredNames :
      Cardinality(Declaring(n)) >= 2 =>
        /\ n \in DOMAIN routeMap
        /\ routeMap[n] = Route(Servers[LastDeclaring(n)].client,
                               Servers[LastDeclaring(n)].sanitizer)
        /\ \A k \in DOMAIN calls :
             calls[k].name = n =>
               /\ calls[k].client = Servers[LastDeclaring(n)].client
               /\ CallsFor(calls[k].id) = {k}

C6_Witness ==
  /\ pc = "fulfill"
  /\ Declaring("status") = {1, 2, 4}
  /\ \E k \in DOMAIN calls :
       calls[k].name = "status" /\ calls[k].client = "jokesClient"

IdsOf(rs) == [k \in DOMAIN rs |-> rs[k].tool_use_id]

UseIds(blocks) == LET us == SelectSeq(blocks, IsToolUse) IN [k \in DOMAIN us |-> us[k].id]

\* C7: the results of fulfillToolUses are one tool_result per tool_use block
\* gone through, in block order, each with the id of its block (unregistered,
\* succeeded or failed alike); other blocks give no result.
C7_OneResultPerToolUse ==
  pc = "fulfill" =>
    /\ IdsOf(results) = UseIds(SubSeq(content, 1, idx - 1))
    /\ \A k \in DOMAIN results : results[k].type = "tool_result"

C7_Witness ==
  /\ FulfillOver
  /\ Len(content) = 2
  /\ IsToolUse(content[1]) /\ ~Registered(content[1])
  /\ Registered(content[2])
  /\ IdsOf(results) = <<content[1].id, content[2].id>>
  /\ content[1].id # content[2].id

\* the turns askAnthropicWithTools has pushed since the user's prompt
SincePrompt == SubSeq(messages, ask.base + 1, Len(messages))

IsAssistantTurn(m) == m.role = "assistant" /\ m.shape = "blocks"

IsResultsTurn(m) == m.role = "user" /\ m.shape = "results"

\* the rounds so far: an assistant turn with a tool_use block, then one user
\* turn with the results of that round, one per tool_use block
RoundsSoFar(n) ==
  \A i \in 1..n :
    /\ IsAssistantTurn(SincePrompt[2 * i - 1])
    /\ HasToolUse(SincePrompt[2 * i - 1].body)
    /\ IsResultsTurn(SincePrompt[2 * i])
    /\ IdsOf(SincePrompt[2 * i].body) = UseIds(SincePrompt[2 * i - 1].body)

C8_Counted ==
  ask.status = "running" =>
    /\ ask.queries = 1 + ask.resultTurns
    /\ pc = "query" =>
         /\ Len(SincePrompt) = 2 * ask.resultTurns
         /\ ask.toolResponses = ask.resultTurns
         /\ RoundsSoFar(ask.resultTurns)
    /\ pc = "fulfill" =>
         /\ Len(SincePrompt) = 2 * ask.resultTurns + 1
         /\ IsAssistantTurn(Last(SincePrompt))
         /\ Last(SincePrompt).body = content
         /\ ask.toolResponses = ask.resultTurns + (IF HasToolUse(content) THEN 1 ELSE 0)
         /\ RoundsSoFar(ask.resultTurns)

C8_RoundEnds ==
  (ask.status = "running" /\ FulfillOver) =>
    IF HasToolUse(content)
    THEN /\ messages' = Append(messages, Msg("user", "results", results))
         /\ IdsOf(results) = UseIds(content)
         /\ pc' = "query"
         /\ ask'.status = "running"
         /\ ask'.queries = ask.queries + 1
    ELSE /\ messages' = messages
         /\ pc' = "idle"
         /\ ask'.status = "returned"
         /\ ask'.queries = 1 + ask'.toolResponses

\* C8: in askAnthropicWithTools a response with a tool_use block is followed by
\* one user turn holding all the results of its round and then by another
\* query; the call returns at the first response with no tool_use block, so its
\* queries number one plus the responses that had a tool_use block.
C8_OneTurnPerRound == [](C8_Counted) /\ [][C8_RoundEnds]_vars

C8_Witness ==
  /\ ask.status = "returned"
  /\ ask.queries = 2
  /\ ask.toolResponses = 1
  /\ Len(messages) = ask.base + 3
  /\ Len(messages[ask.base + 2].body) = 2

C9_FirstResponseOver ==
  /\ ask.status = "running"
  /\ FulfillOver
  /\ ask.resultTurns = 0
  /\ ~HasToolUse(content)

C9_OneQueryNoCall ==
  /\ ask'.status = "returned"
  /\ ask'.queries = 1
  /\ ask'.dispatched = 0
  /\ messages' = messages
  /\ Len(messages) = ask.base + 1
  /\ Last(messages) = Msg("assistant", "blocks", content)

\* C9 as stated: when the first response of a tools-mode turn has no tool_use
\* block, askAnthropicWithTools makes one query, dispatches no call, appends no
\* tool-result turn and returns that response's text (its text blocks joined
\* by a newline and trimmed).
C9_ReturnsResponseText ==
  [][C9_FirstResponseOver =>
       (C9_OneQueryNoCall /\ lastText' = extractText(content))]_vars

\* C9: when the first response of a tools-mode turn has no tool_use block,
\* askAnthropicWithTools makes one query, dispatches no call, appends no
\* tool-result turn and returns that response's text (its text blocks joined
\* by a newline and trimmed), or `(Sin texto en la respuesta)` when that text
\* is empty.
C9_ReturnsTextOrPlaceholder ==
  [][C9_FirstResponseOver =>
       /\ C9_OneQueryNoCall
       /\ lastText' = IF extractText(content) = <<>>
                      THEN <<"(Sin texto en la respuesta)">>
                      ELSE extractText(content)]_vars

C9_Witness ==
  /\ ask.status = "returned"
  /\ ask.queries = 1
  /\ ask.toolResponses = 0
  /\ Len(messages) = ask.base + 1
  /\ Last(messages).body = <<>>
  /\ lastText = <<"(Sin texto en la respuesta)">>

\* the pieces of a content sequence, one per segment
TextSegsOnly(segs) == SelectSeq(segs, LAMBDA g : g.type = "text")

\* text is the pieces joined in order by "\n"
IsJoined(text, pieces) ==
  /\ Len(text) = (IF pieces = <<>> THEN 0 ELSE 2 * Len(pieces) - 1)
  /\ \A i \in DOMAIN pieces : text[2 * i - 1] = pieces[i]
  /\ \A i \in 1..(Len(pieces) - 1) : text[2 * i] = "\n"

ContentCalls == {k \in DOMAIN calls : calls[k].reply.t = "content"}

TheResult(id) == results[CHOOSE k \in DOMAIN results : results[k].tool_use_id = id]

\* C10 as stated: the result of a call answered with a content sequence
\* carries the text segments of the sequence joined in order, and the id of
\* the tool_use block.
C10_TextSegmentsJoined ==
  \A k \in ContentCalls :
    /\ ResultsFor(calls[k].id) # {}
    /\ LET segs == TextSegsOnly(calls[k].reply.content)
       IN  IsJoined(TheResult(calls[k].id).content.text,
                    [i \in DOMAIN segs |-> segs[i].text])

PieceOf(g) ==
  IF g.type = "text" THEN g.text ELSE "{\"type\":\"image\",\"data\":\"d\"}"

\* C10, amended: the result carries the segments joined in order by a
\* newline, a text segment giving its text and any other segment its JSON
\* serialization (a single text segment ok gives exactly ok), and the id of
\* the tool_use block.
C10_SegmentsJoined ==
  \A k \in ContentCalls :
    /\ Cardinality(ResultsFor(calls[k].id)) = 1
    /\ TheResult(calls[k].id).content.shape = "blocks"
    /\ LET segs == calls[k].reply.content
       IN  IsJoined(TheResult(calls[k].id).content.text,
                    [i \in DOMAIN segs |-> PieceOf(segs[i])])
    /\ calls[k].reply.content = <<TextSeg("ok")>>
         => TheResult(calls[k].id).content.text = <<"ok">>

C10_Witness ==
  /\ Len(calls) = 2
  /\ calls[1].reply = ContentRes(<<TextSeg("ok")>>)
  /\ calls[2].reply = ContentRes(<<TextSeg("a"), TextSeg("b")>>)
  /\ TheResult(calls[1].id).content.text = <<"ok">>
  /\ TheResult(calls[2].id).content.text = <<"a", "\n", "b">>

----------------------------------------------------------------------------

ResolvedInput ==
  pathResolve(IF fu.input.abs THEN fu.input ELSE pathJoin(fu.base, fu.input))

\* the final segment of the input, when it names something
FinalName(p) ==
  IF p.segs = <<>> \/ Last(p.segs) \in {".", ".."} THEN <<>> ELSE <<Last(p.segs)>>

\* C11: when the resolved input is neither the base nor under it,
\* forceUnderBase returns the base joined with only the final segment of the
\* input, every directory and traversal segment discarded
\* (/w/repos and ../../etc/passwd give /w/repos/passwd); an input that
\* resolves to the base or under it is returned resolved, unchanged.
C11_OnlyFinalSegmentKept ==
  fu.done =>
    IF ResolvedInput = fu.base \/ startsWithSep(ResolvedInput, fu.base)
    THEN fu.out = ResolvedInput
    ELSE fu.out = PathStr(TRUE, fu.base.segs \o FinalName(fu.input))

\* the part of C11 that the code keeps: inputs with a final segment that names
\* something
C11_NamedFinalSegmentKept ==
  (fu.done /\ FinalName(fu.input) # <<>>) =>
    IF ResolvedInput = fu.base \/ startsWithSep(ResolvedInput, fu.base)
    THEN fu.out = ResolvedInput
    ELSE fu.out = PathStr(TRUE, fu.base.segs \o FinalName(fu.input))

\* the listings with nothing in place of a listing that failed
Surviving ==
  [k \in 1..Len(listings) |->
     IF listings[k].shape = "throws" THEN Listing("array", <<>>) ELSE listings[k]]

\* C12: when the listTools of a provider fails during buildToolCatalog the
\* build is not aborted: the catalog and the routing table are the ones of the
\* providers whose listing succeeded.
C12_ListingFailureTolerated ==
  pc # "start" =>
    /\ pc # "rejected"
    /\ routeMap = buildToolCatalog(Servers, Surviving).routeMap
    /\ toolsForAnthropic = buildToolCatalog(Servers, Surviving).toolsForAnthropic

\* C13: a provider that cannot be connected during /mcp:connect or /tools:on
\* does not end the session: the failure is reported and the REPL is at its
\* prompt again, taking the next command.
C13_ConnectFailureNotFatal == ~(pc = "crashed" /\ thrown = ConnectError)

HttpFailed(r) ==
  r.net /\ (~resOk(r) \/ ~r.body.json \/ r.body.error # "none")

\* C14: a callTool of the remote connection whose HTTP response has a status
\* that is not 2xx, a JSON-RPC error field or a body that is no JSON fails with
\* an error carrying the remote error message (or the HTTP status), and
\* returns no value.
C14_HttpFailuresThrow ==
  (http.done /\ http.name # NotAString /\ HttpFailed(http.resp)) =>
    /\ http.out.threw
    /\ IF http.resp.body.json /\ http.resp.body.error \notin {"none", "nomessage"}
       THEN HasPiece(http.out.msg, http.resp.body.error)
       ELSE HasPiece(http.out.msg, http.resp.status)

\* the part of C14 the second definition keeps
C14_SecondDefinitionThrows == http.def = "second" => C14_HttpFailuresThrow

\* the block the for-loop is at is routed with a kind other than fs and git
AtPassThrough ==
  /\ InFulfill
  /\ Registered(content[idx])
  /\ routeMap[content[idx].name].sanitizer \notin {"fs", "git"}

C15_ArgsAsSupplied ==
  \A k \in DOMAIN calls :
    KindOf(calls[k]) \notin {"fs", "git"} => calls[k].args = BlockOf(calls[k].id).input

C15_StateUntouched ==
  AtPassThrough =>
    /\ sessionState' = sessionState
    /\ Len(calls') = Len(calls) + 1
    /\ calls'[Len(calls')].args = content[idx].input

\* C15: a tool routed with the kind none (any kind other than fs and git) is
\* dispatched with exactly the arguments the caller supplied, and the
\* session's current repository path is not changed by it.
C15_NoneKindPassesThrough == [](C15_ArgsAsSupplied) /\ [][C15_StateUntouched]_vars

C15_Witness ==
  /\ sessionState.currentRepoPath # Null
  /\ \E k \in DOMAIN calls :
       /\ calls[k].name = "jokes_get"
       /\ calls[k].args["path"] = P(FALSE, <<"..">>)

\* C16: for every tool name, session state and argument mapping (arguments
\* missing or path arguments that are no strings included) the filesystem and
\* version-control sanitizers return a sanitized mapping and never throw.
C16_SanitizersNeverThrow ==
  (InFulfill /\ Registered(content[idx])) =>
    ~sanitizeArgsByTool(content[idx].name, content[idx].input, sessionState,
                        routeMap[content[idx].name].sanitizer).threw

\* the block the for-loop is at goes to the version-control sanitizer
AtGitKind ==
  /\ InFulfill
  /\ Registered(content[idx])
  /\ routeMap[content[idx].name].sanitizer = "git"

DefaultRepo == Str(PathStr(TRUE, BASE_REPOS.segs \o <<"repo-mcp">>))

\* what the version-control sanitizer returned in this step, if it returned
C17_Returned == calls'[Len(calls')].args["repo_path"]

C17_Stored ==
  /\ C17_Returned.t = "str"
  /\ C17_Returned.p # EmptyStr
  /\ C17_Returned = sessionState'.currentRepoPath
  /\ ~Truthy(content[idx].input["repo_path"]) =>
       IF Truthy(sessionState.currentRepoPath)
       THEN C17_Returned = sessionState.currentRepoPath
       ELSE C17_Returned = DefaultRepo

\* C17: after every call of the version-control sanitizer the repo_path it
\* returns is non-empty and is the session's current repository path: an
\* explicit path is confined under the repository base and stored, an omitted
\* one is replaced by the stored one, and with none stored it is
\* <repositoryBase>/repo-mcp, which is then stored.
C17_RepoPathConfinedAndStored ==
  [][(AtGitKind /\ Len(calls') = Len(calls) + 1) =>
       /\ C17_Stored
       /\ Truthy(content[idx].input["repo_path"]) =>
            InsideBase(C17_Returned.p, BASE_REPOS)]_vars

\* the part of C17 the code keeps: the returned path is non-empty, stored, and
\* for an omitted path the stored one or the default
C17_RepoPathStored ==
  [][(AtGitKind /\ Len(calls') = Len(calls) + 1) => C17_Stored]_vars

\* the block the for-loop is at goes to the filesystem sanitizer
AtFsKind ==
  /\ InFulfill
  /\ Registered(content[idx])
  /\ routeMap[content[idx].name].sanitizer = "fs"

C18_Rewritten(v) ==
  IF Truthy(sessionState.currentRepoPath)
  THEN Str(pathResolve2(sessionState.currentRepoPath.p,
                        IF v.p.abs THEN basename(v.p) ELSE v.p))
  ELSE Str(forceUnderBase(BASE_DEMO, v.p))

\* C18: the filesystem sanitizer rewrites exactly the keys path, source and
\* destination that are present with a non-empty value: with a current
\* repository path, an absolute value is cut to its basename, a relative one
\* kept, and the value resolved against the current repository path; with
\* none, the value is forceUnderBase(demo base, value). Every other key is
\* copied unchanged and no absent key is added.
C18_FsRewritesPathKeys ==
  [][(AtFsKind /\ Len(calls') = Len(calls) + 1) =>
       \A k \in ArgKeys :
         calls'[Len(calls')].args[k] =
           IF k \in {"path", "source", "destination"} /\ Truthy(content[idx].input[k])
           THEN C18_Rewritten(content[idx].input[k])
           ELSE content[idx].input[k]]_vars

C18_Witness ==
  /\ sessionState.currentRepoPath = P(TRUE, <<"w", "repos", "a">>)
  /\ pc = "fulfill"
  /\ \E k \in DOMAIN calls :
       /\ calls[k].name = "write_file"
       /\ BlockOf(calls[k].id).input["path"] = P(TRUE, <<"etc", "passwd">>)
       /\ calls[k].args["path"] = P(TRUE, <<"w", "repos", "a", "passwd">>)
       /\ calls[k].args["q"] = P(FALSE, <<"x">>)
       /\ calls[k].args["source"] = Absent

C19_Relative(repo, f) ==
  IF ~f.p.abs THEN f
  ELSE IF pathRelative(repo.p, f.p) = EmptyStr THEN P(FALSE, <<".">>)
  ELSE Str(pathRelative(repo.p, f.p))

\* C19: for git_add with a list of files the version-control sanitizer replaces
\* every absolute entry by its path relative to the resolved repo_path (`.`
\* when that is empty) and leaves every relative entry as it is, so that no
\* dispatched entry is absolute; for any other tool name the files argument is
\* left unchanged.
C19_GitAddFilesRelative ==
  \A k \in DOMAIN calls :
    KindOf(calls[k]) = "git" =>
      LET in  == BlockOf(calls[k].id).input["files"]
          out == calls[k].args["files"]
      IN  IF calls[k].name = "git_add" /\ in.t = "list"
          THEN /\ out.t = "list"
               /\ Len(out.items) = Len(in.items)
               /\ \A i \in 1..Len(in.items) :
                    /\ out.items[i] = C19_Relative(calls[k].args["repo_path"], in.items[i])
                    /\ ~out.items[i].p.abs
          ELSE out = in

C19_Witness ==
  /\ pc = "fulfill"
  /\ \E k \in DOMAIN calls :
       /\ calls[k].name = "git_add"
       /\ calls[k].args["repo_path"] = P(TRUE, <<"w", "repos", "a">>)
       /\ BlockOf(calls[k].id).input["files"]
            = List(<<P(TRUE, <<"w", "repos", "a", "f">>), P(FALSE, <<"g">>)>>)
       /\ calls[k].args["files"] = List(<<P(FALSE, <<"f">>), P(FALSE, <<"g">>)>>)

C20_ChangedBySanitizerOnly ==
  /\ sessionState' # sessionState => AtGitKind
  /\ Truthy(sessionState.currentRepoPath) => Truthy(sessionState'.currentRepoPath)

\* C20: the session's current repository path starts empty and only the
\* version-control sanitizer changes it: the filesystem sanitizer, the none
\* kind, an unregistered tool, a failed dispatch and the commands /clear,
\* /tools:on, /tools:off and /mcp:connect leave it as it is, and once set it is
\* never empty again during the session.
C20_RepoPathWrittenByGitOnly ==
  /\ sessionState.currentRepoPath = Null
  /\ [][C20_ChangedBySanitizerOnly]_vars

C20_Witness ==
  /\ sessionState.currentRepoPath = P(TRUE, <<"w", "repos", "a">>)
  /\ pc = "fulfill"
  /\ \E k \in DOMAIN calls : calls[k].name = "write_file" /\ calls[k].reply.t = "throw"
  /\ Len(messages) = 2

----------------------------------------------------------------------------

C21_RecordedWhileFulfilling ==
  (ask.status = "running" /\ pc = "fulfill") =>
    /\ messages # <<>>
    /\ Last(messages) = [role |-> "assistant", shape |-> "blocks", body |-> content]

C21_RecordedFirst ==
  (pc = "query" /\ pc' = "fulfill") =>
    /\ messages' = Append(messages,
                          [role |-> "assistant", shape |-> "blocks", body |-> content'])
    /\ calls' = <<>>
    /\ results' = <<>>

\* C21: in tools mode every response of the model is appended to the history
\* as an assistant turn before any tool call of that response is dispatched,
\* a response with no text and no tool_use block included.
C21_ResponseRecordedBeforeDispatch ==
  [](C21_RecordedWhileFulfilling) /\ [][C21_RecordedFirst]_vars

C21_Witness ==
  /\ ask.status = "running"
  /\ pc = "fulfill"
  /\ content = <<>>
  /\ Last(messages) = [role |-> "assistant", shape |-> "blocks", body |-> <<>>]

CatalogNames == {toolsForAnthropic[i].name : i \in DOMAIN toolsForAnthropic}

ListedNames == {n \in DeclaredNames : Declaring(n) # {}}

C22_OneBuild ==
  (pc # "crashed" /\ listings # <<>>) =>
    /\ toolsForAnthropic = buildToolCatalog(Servers, listings).toolsForAnthropic
    /\ routeMap = buildToolCatalog(Servers, listings).routeMap
    /\ DOMAIN routeMap = ListedNames
    /\ CatalogNames = ListedNames

C22_FailureKeeps ==
  (AtPrompt /\ pc' = "crashed") =>
    /\ toolsForAnthropic' = toolsForAnthropic
    /\ routeMap' = routeMap
    /\ toolsMode' = toolsMode

\* C22: every successful /tools:on replaces the catalog and the routing table
\* together, by those of one and the same build, so that a route of an earlier
\* build survives only if the new build lists it again; when the connect or
\* the build fails, the catalog, the routing table and the tools-mode flag
\* stay as they were.
C22_CatalogReplacedWholesale == [](C22_OneBuild) /\ [][C22_FailureKeeps]_vars

C22_Witness ==
  /\ pc = "idle"
  /\ toolsMode
  /\ listings = NoToolLists
  /\ routeMap = EmptyMap
  /\ toolsForAnthropic = <<>>
  /\ sessionState.currentRepoPath # Null

----------------------------------------------------------------------------

\* the position in the response of the block a call was made for
PosOf(id) == CHOOSE p \in DOMAIN content : IsToolUse(content[p]) /\ content[p].id = id

\* the version-control calls made before the k-th call of this response
GitCallsBefore(k) == {j \in 1..(k - 1) : KindOf(calls[j]) = "git"}

LastGitCallBefore(k) == CHOOSE j \in GitCallsBefore(k) : \A i \in GitCallsBefore(k) : i <= j

C23_InBlockOrder ==
  pc = "fulfill" =>
    /\ \A k \in DOMAIN calls : PosOf(calls[k].id) \in Processed
    /\ \A j, k \in DOMAIN calls : j < k => PosOf(calls[j].id) < PosOf(calls[k].id)
    /\ \A k \in DOMAIN calls : ResultsFor(calls[k].id) # {}

C23_SeesEarlierBlocks ==
  pc = "fulfill" =>
    \A k \in DOMAIN calls :
      (KindOf(calls[k]) = "fs" /\ GitCallsBefore(k) # {}) =>
        LET repo == calls[LastGitCallBefore(k)].args["repo_path"]
            sent == BlockOf(calls[k].id).input
        IN  \A key \in {"path", "source", "destination"} :
              Truthy(sent[key]) =>
                calls[k].args[key] =
                  Str(pathResolve2(repo.p, IF sent[key].p.abs THEN basename(sent[key].p)
                                           ELSE sent[key].p))

C23_OneBlockPerStep ==
  (InFulfill /\ pc' = "fulfill" /\ idx' # idx) =>
    /\ idx' = idx + 1
    /\ Len(calls') <= Len(calls) + 1
    /\ SubSeq(calls', 1, Len(calls)) = calls
    /\ Len(calls') = Len(calls) + 1 =>
         /\ IsToolUse(content[idx])
         /\ calls'[Len(calls')].id = content[idx].id
         /\ ResultsFor(content[idx].id) = {}
         /\ Len(results') = Len(results) + 1
         /\ results'[Len(results')].tool_use_id = content[idx].id

\* C23: within one call of fulfillToolUses the tool_use blocks are sanitized
\* and dispatched one after another in block order: a block is sanitized only
\* when the call of the block before it has been answered, so a filesystem
\* call that follows a version-control call of the same response is resolved
\* against the repository path that call left, and no call is made while
\* another one is unanswered.
C23_SequentialInBlockOrder ==
  /\ [](C23_InBlockOrder /\ C23_SeesEarlierBlocks)
  /\ [][C23_OneBlockPerStep]_vars

C23_Witness ==
  /\ pc = "fulfill"
  /\ Len(calls) = 2
  /\ calls[1].name = "git_status"
  /\ Truthy(content[1].input["repo_path"])
  /\ calls[2].name = "write_file"
  /\ calls[2].args["path"] = Str(PathStr(TRUE, BASE_REPOS.segs \o <<"a", "f">>))

----------------------------------------------------------------------------

\* The session under the scheduling of the event loop: a pending model query
\* settles, and the steps of askAnthropicWithTools and fulfillToolUses that can
\* run do run.
Fairness ==
  /\ WF_vars(PlainResponse \/ QueryFails)
  /\ WF_vars(AskResponse \/ QueryFails)
  /\ WF_vars(FulfillStep(SessionReplies))
  /\ WF_vars(AskAgain)
  /\ WF_vars(AskReturn)

SpecLive == Init /\ [][Next]_vars /\ Fairness

\* the response of this round has been gone through
C24_RoundOver == FulfillOver /\ ask.status = "running"

\* whatever the number of rounds so far, a response with a tool_use block is
\* followed by another query
C24_NoCap == (C24_RoundOver /\ HasToolUse(content)) => ENABLED AskAgain

C24_LoopsOnToolUse ==
  /\ (C24_RoundOver /\ HasToolUse(content)) =>
       /\ pc' = "query"
       /\ ask'.status = "running"
       /\ ask'.queries = ask.queries + 1
  /\ (ask.status = "running" /\ ask'.status = "returned") =>
       /\ C24_RoundOver
       /\ ~HasToolUse(content)

C24_Terminates == (ask.status = "running") ~> (ask.status \in {"returned", "failed"})

----------------------------------------------------------------------------

\* C25: whenever ensureMcpConnected returns without an error, whatever
\* connection attempts succeeded or failed before, all six providers are
\* connected, so that the catalog build that follows is handed no missing
\* connection.
C25_ReturnMeansAllSix ==
  AtPrompt =>
    \A failAt \in ConnectFaults :
      LET e == ensureMcpConnected(clients, failAt)
      IN  ~e.threw => \A c \in AllClients : e.clients[c]

----------------------------------------------------------------------------

\* the names the providers k..Len(listings) list, provider after provider
RECURSIVE NamesFrom(_)
NamesFrom(k) ==
  IF k > Len(listings) THEN <<>>
  ELSE [i \in 1..Len(normalizeToolsList(listings[k])) |->
          normalizeToolsList(listings[k])[i].name] \o NamesFrom(k + 1)

\* C26: after every buildToolCatalog the names of the catalog are the keys of
\* the routing table, and the catalog has one entry per tool per provider, in
\* provider order then listing order: a name two providers declare is in the
\* catalog twice and has one route.
C26_CatalogMatchesRoutes ==
  (pc \in {"idle", "fulfill"}) =>
    /\ CatalogNames = DOMAIN routeMap
    /\ [i \in 1..Len(toolsForAnthropic) |-> toolsForAnthropic[i].name] = NamesFrom(1)
    /\ \A n \in DOMAIN routeMap :
         Cardinality({i \in DOMAIN toolsForAnthropic : toolsForAnthropic[i].name = n})
           = Cardinality(Declaring(n))

C26_Witness ==
  /\ pc = "idle"
  /\ Cardinality(Declaring("status")) = 2
  /\ Cardinality({i \in DOMAIN toolsForAnthropic : toolsForAnthropic[i].name = "status"}) = 2
  /\ "status" \in DOMAIN routeMap
  /\ "write_file" \in DOMAIN routeMap

----------------------------------------------------------------------------

\* the assistant turns of the history that hold a response's blocks
BlockTurns == {i \in DOMAIN messages : messages[i].role = "assistant" /\ messages[i].shape = "blocks"}

C27_HistoryAsSent ==
  /\ \A i \in BlockTurns : messages[i].body \in SessionResponses
  /\ pc = "fulfill" => content \in SessionResponses

C27_BlocksUntouched ==
  (pc = "fulfill" /\ pc' = "fulfill") =>
    /\ content' = content
    /\ messages' = messages

\* C27: sanitizing a tool call leaves the mapping it was given as it was: the
\* input of every tool_use block the history holds, its files list included,
\* is what the model sent, and the rewritten paths are in the arguments
\* dispatched to the provider only.
C27_CallerArgsUntouched == [](C27_HistoryAsSent) /\ [][C27_BlocksUntouched]_vars

C27_Witness ==
  /\ pc = "fulfill"
  /\ ask.status = "running"
  /\ Len(calls) = 1
  /\ calls[1].name = "git_add"
  /\ calls[1].args["files"] = List(<<P(FALSE, <<"f">>)>>)
  /\ calls[1].args["repo_path"] = P(TRUE, <<"w", "repos", "a">>)
  /\ Last(messages).body[1].input["files"] = List(<<P(TRUE, <<"w", "repos", "a", "f">>)>>)
  /\ Last(messages).body[1].input["repo_path"] = P(FALSE, <<"a">>)

----------------------------------------------------------------------------

C28_Alternates ==
  \A i \in DOMAIN messages :
    messages[i].role = IF i % 2 = 1 THEN "user" ELSE "assistant"

\* the tool_use ids of an assistant turn
C28_UseIdsOf(m) ==
  IF m.shape = "blocks" THEN {m.body[j].id : j \in {j \in DOMAIN m.body : IsToolUse(m.body[j])}}
  ELSE {}

C28_ResultsFollow ==
  \A i \in DOMAIN messages :
    (messages[i].role = "assistant" /\ C28_UseIdsOf(messages[i]) # {}
       /\ (i < Len(messages) \/ pc = "idle")) =>
      /\ i < Len(messages)
      /\ messages[i + 1].role = "user"
      /\ messages[i + 1].shape = "results"
      /\ \A id \in C28_UseIdsOf(messages[i]) :
           Cardinality({k \in DOMAIN messages[i + 1].body :
                          messages[i + 1].body[k].tool_use_id = id}) = 1

\* C28: in every reachable state of a session the history alternates between
\* user and assistant turns, starting with a user turn, and an assistant turn
\* with tool_use blocks is followed at once by a user turn with one
\* tool_result for each of them.
C28_HistoryWellFormed == C28_Alternates /\ C28_ResultsFollow

----------------------------------------------------------------------------

C29_ToolsAllowed == toolsMode /\ Len(toolsForAnthropic) > 0

\* a turn of the chat loop queries with the catalog, or calls a tool, only
\* with tools mode on and a catalog that is not empty
C29_OnlyInToolsMode ==
  /\ pc \in {"query", "fulfill"} => C29_ToolsAllowed
  /\ pc = "plain" => (calls = <<>> /\ ask.status # "running")

C29_Steps ==
  /\ Len(calls') > Len(calls) => C29_ToolsAllowed
  /\ (AtPrompt /\ Len(messages') = Len(messages) + 1 /\ ~C29_ToolsAllowed) =>
       /\ pc' = "plain"
       /\ calls' = <<>>
  /\ pc = "plain" => pc' \in {"plain", "idle"}
  /\ (toolsMode /\ ~toolsMode') =>
       /\ toolsForAnthropic' = toolsForAnthropic
       /\ routeMap' = routeMap

\* C29: the chat loop dispatches a tool call only while tools mode is on and
\* the catalog of the last successful build is not empty: before the first
\* successful /tools:on and after every /tools:off a prompt is answered by a
\* query without catalog and leads to no call; /tools:off leaves the catalog
\* and the routing table in place.
C29_ToolsOnlyWhenOn == [](C29_OnlyInToolsMode) /\ [][C29_Steps]_vars

C29_Witness ==
  /\ pc = "plain"
  /\ ~toolsMode
  /\ Len(toolsForAnthropic) > 0
  /\ "git_status" \in DOMAIN routeMap
  /\ sessionState.currentRepoPath # Null

----------------------------------------------------------------------------

\* a pending model query ends with neither a response nor a tool round
C30_QueryFailed ==
  /\ pc \in {"plain", "query"}
  /\ pc' \notin {"plain", "query", "fulfill"}
  /\ messages' = messages

C30_Caught ==
  C30_QueryFailed =>
    /\ pc' = "idle"
    /\ thrown' = NoErr
    /\ toolsMode' = toolsMode
    /\ toolsForAnthropic' = toolsForAnthropic
    /\ routeMap' = routeMap
    /\ sessionState' = sessionState
    /\ lastText' = lastText
    /\ (pc = "query") => ask'.status = "failed"

\* C30: a model query that fails, in plain mode or at any round of a
\* tools-mode turn, is caught by the REPL: the tools-mode flag, the catalog,
\* the routing table and the session's repository path are as before, and the
\* REPL is back at the prompt for the next input.
C30_QueryFailureCaught == [][C30_Caught]_vars

C30_Witness ==
  /\ AtPrompt
  /\ ask.status = "failed"
  /\ ask.resultTurns >= 1
  /\ toolsMode
  /\ sessionState.currentRepoPath # Null
  /\ messages[Len(messages)].shape = "results"

====
